---- MODULE Spec2Model ----
(***************************************************************************)
(* A model of openai_client_version.py: the semicolon-delimited codec      *)
(* (read_semicolon_csv / write_semicolon_csv), the localization provider   *)
(* (process_localization), the row processor (process_row) and the batch   *)
(* runner (process_csv_file).                                              *)
(*                                                                         *)
(* Text is a sequence of tokens.  The characters the code inspects (';',   *)
(* line breaks, blanks, the byte-order mark, digits, '.') are tokens of    *)
(* their own; any other token stands for a run of ordinary characters.     *)
(* A Python value is a tagged record [t, v]: str, none, num, dict, list.   *)
(***************************************************************************)
EXTENDS Integers, Sequences, FiniteSets, TLC

VARIABLES
    loc_args,      \* process_localization: the arguments and the provider's outcome
    loc_result,    \* process_localization: the returned value (NoResult before the call)
    locate,        \* get_image_path: [pc, listing, image_id, result]
    codec,         \* the codec applied to one row set or one file: [pc, src, rows0, text, rows, text2]
    \* process_csv_file:
    pc,            \* where the run is: start, model, rows, done, aborted (idle: no run)
    args,          \* the arguments: [data_file, imgs_dir, debug, limit]
    rows,          \* the loaded rows
    descriptions_cache,
    model_idx,     \* the number of the model being processed (position in MODELS)
    row_idx,       \* the number of the row being processed
    model_rows,    \* the model's copy of the rows
    complete_data, \* the model's structured records
    record_index,  \* for each record, the number of the row it was made from
    written,       \* the names of the files written, in the order of writing
    csv_out,       \* the content of the table file written last
    json_out,      \* the content of the record file written last
    desc_calls,    \* image identifier -> number of get_image_description calls
    last           \* what the last step did: a pass of the row loop, or a failed load

loc_vars == <<loc_args, loc_result>>

run_vars == <<pc, args, rows, descriptions_cache, model_idx, row_idx, model_rows, complete_data,
              record_index, written, csv_out, json_out, desc_calls, last>>

vars == <<loc_args, loc_result, locate, codec, pc, args, rows, descriptions_cache, model_idx, row_idx,
          model_rows, complete_data, record_index, written, csv_out, json_out,
          desc_calls, last>>

(***************************************************************************)
(* Python values                                                           *)
(***************************************************************************)
Str(s) == [t |-> "str", v |-> s]

NoneVal == [t |-> "none", v |-> <<>>]

Num(s) == [t |-> "num", v |-> s]

\* An int the program computes with (the row limit)
PyInt(n) == [t |-> "int", v |-> n]

Dict(f) == [t |-> "dict", v |-> f]

List(s) == [t |-> "list", v |-> s]

\* An operation either returns a value or raises an exception with a message.
Return(x) == [ok |-> TRUE, val |-> x, err |-> <<>>]

Raise(msg) == [ok |-> FALSE, val |-> NoneVal, err |-> msg]

\* str(e) of the TypeError Python raises for an operation a type does not support
TypeErrorMsg == <<"TypeError">>

\* Python's `in` is defined for dict (keys), list (elements) and str (substring)
PyIterable(c) == c.t \in {"dict", "list", "str"}

\* `k in c` for a str key k
PyIn(k, c) ==
    CASE c.t = "dict" -> k \in DOMAIN c.v
      [] c.t = "list" -> \E i \in 1..Len(c.v) : c.v[i] = Str(<<k>>)
      [] c.t = "str"  -> \E i \in 1..Len(c.v) : c.v[i] = k
      [] OTHER -> FALSE

\* Python truthiness of a value
Truthy(x) ==
    CASE x.t = "none" -> FALSE
      [] x.t = "str"  -> x.v # <<>>
      [] x.t = "list" -> x.v # <<>>
      [] x.t = "dict" -> DOMAIN x.v # {}
      [] x.t = "int"  -> x.v # 0
      [] OTHER -> TRUE

\* d[k] = x on a dict d
DictSet(d, k, x) == Dict([j \in DOMAIN d.v \cup {k} |-> IF j = k THEN x ELSE d.v[j]])

(***************************************************************************)
(* LocalizationProvider: process_localization                              *)
(***************************************************************************)
\* The three target languages, in the order the code walks them
LANGS == <<"turkish", "french", "german">>

LangSet == {LANGS[i] : i \in 1..Len(LANGS)}

LANGUAGE_CODES == [turkish |-> "tr", french |-> "fr", german |-> "de"]

\* f"[ERROR: {reason}] {english_text}"
ErrorText(reason, english_text) == <<"[ERROR: ">> \o reason \o <<"] ">> \o english_text

\* The uniform error placeholder: all three languages carry the same tagged text
ErrorResult(reason, english_text) ==
    Dict([localization |->
            Dict([l \in LangSet |-> Str(ErrorText(reason, english_text))])])

\* Mutant: the french and german placeholders change places
DebugResultSwapped(english_text) ==
    Dict([localization |->
            Dict([turkish |-> Str(<<"[TR] ">> \o english_text),
                  french  |-> Str(<<"[DE] ">> \o english_text),
                  german  |-> Str(<<"[FR] ">> \o english_text)])])

\* Lines 145-153 and 270-285: the request to the text model is sent unless
\* the call is in debug mode
TextRequestSent(debug) == ~debug

\* The debug-mode stand-in
DebugResult(english_text) ==
    Dict([localization |->
            Dict([turkish |-> Str(<<"[TR] ">> \o english_text),
                  french  |-> Str(<<"[FR] ">> \o english_text),
                  german  |-> Str(<<"[DE] ">> \o english_text)])])

\* Mutant: a missing language is reported but not filled in
FillMissingSkip(c, english_text) == c

\* The loop over the three languages on a dict container: each missing
\* language gets its own placeholder
FillMissing(c, english_text) ==
    Dict([l \in DOMAIN c.v \cup LangSet |->
            IF l \in DOMAIN c.v THEN c.v[l]
            ELSE Str(ErrorText(<<"Missing ", l, " translation">>, english_text))])

\* Mutant: a reply without the container is returned as it came
ValidateReplyNoContainerCheck(result, english_text) ==
    IF ~PyIterable(result) THEN Raise(TypeErrorMsg)
    ELSE IF ~PyIn("localization", result) THEN Return(result)
    ELSE IF result.t # "dict" THEN Raise(TypeErrorMsg)
    ELSE LET c == result.v["localization"] IN
         IF ~PyIterable(c) THEN Raise(TypeErrorMsg)
         ELSE IF c.t = "dict"
              THEN Return(DictSet(result, "localization", FillMissing(c, english_text)))
         ELSE IF \A i \in 1..Len(LANGS) : PyIn(LANGS[i], c) THEN Return(result)
         ELSE Raise(TypeErrorMsg)

\* The validation of a parsed reply.  `in` on a value that is not iterable,
\* a str subscript on a list or str, and an item assignment on a list or str
\* raise TypeError.
ValidateReply(result, english_text) ==
    IF ~PyIterable(result) THEN Raise(TypeErrorMsg)
    ELSE IF ~PyIn("localization", result)
         THEN Return(ErrorResult(<<"Missing localization data">>, english_text))
    ELSE IF result.t # "dict" THEN Raise(TypeErrorMsg)
    ELSE LET c == result.v["localization"] IN
         IF ~PyIterable(c) THEN Raise(TypeErrorMsg)
         ELSE IF c.t = "dict"
              THEN Return(DictSet(result, "localization", FillMissing(c, english_text)))
         ELSE IF \A i \in 1..Len(LANGS) : PyIn(LANGS[i], c) THEN Return(result)
         ELSE Raise(TypeErrorMsg)

\* The provider's outcome for one request: the call raises (reason), or the
\* message content is None, text that is not JSON, or text that parses to doc.
ApiRaise(reason) == [kind |-> "raise", reason |-> reason, doc |-> NoneVal]

ApiNoContent == [kind |-> "none", reason |-> <<>>, doc |-> NoneVal]

ApiBadJson == [kind |-> "badjson", reason |-> <<>>, doc |-> NoneVal]

ApiJson(doc) == [kind |-> "json", reason |-> <<>>, doc |-> doc]

\* Mutant: the outer handler is missing, the provider's exception escapes
process_localization_unguarded(description, english_text, model_id, model_name, debug, api) ==
    IF debug THEN Return(DebugResult(english_text))
    ELSE CASE api.kind = "raise" -> Raise(api.reason)
           [] api.kind = "none" -> Raise(TypeErrorMsg)
           [] api.kind = "badjson" -> Return(ErrorResult(<<"Invalid JSON">>, english_text))
           [] OTHER ->
                LET r == ValidateReply(api.doc, english_text) IN
                IF r.ok THEN r ELSE Raise(r.err)

process_localization(description, english_text, model_id, model_name, debug, api) ==
    IF debug THEN Return(DebugResult(english_text))
    ELSE CASE api.kind = "raise" -> Return(ErrorResult(api.reason, english_text))
           \* json.loads(None) raises TypeError, which only the outer handler catches
           [] api.kind = "none" -> Return(ErrorResult(TypeErrorMsg, english_text))
           [] api.kind = "badjson" -> Return(ErrorResult(<<"Invalid JSON">>, english_text))
           [] OTHER ->
                LET r == ValidateReply(api.doc, english_text) IN
                IF r.ok THEN r ELSE Return(ErrorResult(r.err, english_text))

\* Well-formed language values the provider may return
GoodContainer == Dict([turkish |-> Str(<<"Merhaba">>), french |-> Str(<<"Salut">>),
                       german |-> Str(<<"Hallo">>)])

(***************************************************************************)
(* TabularCodec: read_semicolon_csv and write_semicolon_csv                *)
(***************************************************************************)
SEMI == ";"

LF == "\n"

CR == "\r"

\* The byte-order mark, U+FEFF
BOM == "<BOM>"

\* The characters str.strip() removes
Whitespace == {" ", "\t", LF, CR}

HEADERS == <<"KEY", "LEVEL_ID", "Text_ID", "image_id", "en", "tr", "de", "fr">>

HeaderSet == {HEADERS[i] : i \in 1..Len(HEADERS)}

\* One token per header name
HeaderLine == <<"KEY", SEMI, "LEVEL_ID", SEMI, "Text_ID", SEMI, "image_id", SEMI,
                "en", SEMI, "tr", SEMI, "de", SEMI, "fr">>

RECURSIVE SplitOn(_, _)
\* s.split(sep): the pieces between the separators, at least one piece
SplitOn(s, sep) ==
    IF \E i \in 1..Len(s) : s[i] = sep
    THEN LET i == CHOOSE k \in 1..Len(s) : s[k] = sep /\ \A j \in 1..(k - 1) : s[j] # sep
         IN <<SubSeq(s, 1, i - 1)>> \o SplitOn(SubSeq(s, i + 1, Len(s)), sep)
    ELSE <<s>>

RECURSIVE JoinWith(_, _)
\* sep.join(parts)
JoinWith(parts, sep) ==
    IF parts = <<>> THEN <<>>
    ELSE IF Len(parts) = 1 THEN parts[1]
    ELSE parts[1] \o <<sep>> \o JoinWith(Tail(parts), sep)

\* s.strip()
Strip(s) ==
    LET keep == {i \in 1..Len(s) : s[i] \notin Whitespace} IN
    IF keep = {} THEN <<>>
    ELSE LET lo == CHOOSE i \in keep : \A j \in keep : i <= j
             hi == CHOOSE i \in keep : \A j \in keep : j <= i
         IN SubSeq(s, lo, hi)

RECURSIVE UniversalNewlines(_)
\* Text-mode reading (newline=None): '\r\n' and '\r' are read as '\n'
UniversalNewlines(s) ==
    IF s = <<>> THEN <<>>
    ELSE IF s[1] = CR
         THEN IF Len(s) >= 2 /\ s[2] = LF
              THEN <<LF>> \o UniversalNewlines(SubSeq(s, 3, Len(s)))
              ELSE <<LF>> \o UniversalNewlines(Tail(s))
    ELSE <<s[1]>> \o UniversalNewlines(Tail(s))

\* file.read() followed by the removal of a leading byte-order mark
ReadContent(file) ==
    LET content == UniversalNewlines(file) IN
    IF content # <<>> /\ content[1] = BOM THEN Tail(content) ELSE content

\* The dict built from one line's values, positionally; a header beyond
\* the values would get ''
RowOfValues(values) ==
    [h \in HeaderSet |->
        LET i == CHOOSE k \in 1..Len(HEADERS) : HEADERS[k] = h IN
        IF i <= Len(values) THEN Str(values[i]) ELSE Str(<<>>)]

\* Mutant: a line with fewer fields than headers is kept and padded
LineToRowsPadded(line) ==
    IF Strip(line) = <<>> THEN <<>>
    ELSE <<RowOfValues(SplitOn(line, SEMI))>>

\* Mutant: a line needs more fields than there are headers
LineToRowsStrict(line) ==
    IF Strip(line) = <<>> THEN <<>>
    ELSE LET values == SplitOn(line, SEMI) IN
         IF Len(values) > Len(HEADERS) THEN <<RowOfValues(values)>> ELSE <<>>

\* The body of the loop over the lines: the rows one line adds (none or one)
LineToRows(line) ==
    IF Strip(line) = <<>> THEN <<>>
    ELSE LET values == SplitOn(line, SEMI) IN
         IF Len(values) >= Len(HEADERS) THEN <<RowOfValues(values)>> ELSE <<>>

RECURSIVE RowsOfLines(_)
RowsOfLines(lines) ==
    IF lines = <<>> THEN <<>>
    ELSE LineToRows(Head(lines)) \o RowsOfLines(Tail(lines))

\* Mutant: the header line is decoded as data
read_semicolon_csv_keep_first(file) ==
    RowsOfLines(SplitOn(ReadContent(file), LF))

\* read_semicolon_csv: the rows (the headers returned are always HEADERS)
read_semicolon_csv(file) ==
    RowsOfLines(Tail(SplitOn(ReadContent(file), LF)))

\* What write_semicolon_csv writes for one field value
FieldText(value) ==
    CASE value.t = "none" -> <<>>
      [] OTHER -> value.v

\* Mutant: the fields are written in the row's own key order, tr/fr/de swapped
RowLineSwapped(row, headers) ==
    JoinWith([i \in 1..Len(headers) |->
                FieldText(row[IF headers[i] = "de" THEN "fr"
                              ELSE IF headers[i] = "fr" THEN "de" ELSE headers[i]])], SEMI)
    \o <<LF>>

\* One written line: the header's values joined with ';' and a line feed
RowLine(row, headers) ==
    JoinWith([i \in 1..Len(headers) |-> FieldText(row[headers[i]])], SEMI) \o <<LF>>

RECURSIVE RowLines(_, _)
RowLines(rs, headers) ==
    IF rs = <<>> THEN <<>>
    ELSE RowLine(Head(rs), headers) \o RowLines(Tail(rs), headers)

\* write_semicolon_csv: the file's content (utf-8-sig puts the mark first,
\* newline='' writes the line feeds as they are)
write_semicolon_csv(rs, headers) ==
    <<BOM>> \o JoinWith([i \in 1..Len(headers) |-> <<headers[i]>>], SEMI) \o <<LF>>
    \o RowLines(rs, headers)

CodecIdle == [pc |-> "idle", src |-> "none", rows0 |-> <<>>, text |-> <<>>, rows |-> <<>>, text2 |-> <<>>]

(***************************************************************************)
(* ImageLocator: get_image_path                                            *)
(***************************************************************************)
Digits == {"0", "1", "2", "3", "4", "5", "6", "7", "8", "9"}

\* Tokens the pattern \w matches: digits, '_' and runs of letters
WordTokens == Digits \cup {"_", "png", "jpg", "bg"}

\* Tokens that are one character (a run of letters has two or more)
SingleChars == Digits \cup {".", "_"}

\* Lines 75 and 82: the identifier is put into the pattern as it is, so a
\* '.' in it is the pattern for any one character; a digit is itself
PatternTokenMatch(p, c) == IF p = "." THEN c \in SingleChars ELSE p = c

\* The identifier, read as a pattern, matches the filename from position q
PatternMatchAt(filename, q, image_id) ==
    /\ q + Len(image_id) - 1 <= Len(filename)
    /\ \A j \in 1..Len(image_id) : PatternTokenMatch(image_id[j], filename[q + j - 1])

\* re.match(r"^0*" + image_id + r"\.\w+$", filename)
PrimaryMatch(filename, image_id) ==
    \E z \in 0..Len(filename) :
        /\ \A k \in 1..z : filename[k] = "0"
        /\ Len(filename) >= z + Len(image_id) + 2
        /\ PatternMatchAt(filename, z + 1, image_id)
        /\ filename[z + Len(image_id) + 1] = "."
        /\ \A k \in (z + Len(image_id) + 2)..Len(filename) : filename[k] \in WordTokens

\* re.match(r".*?" + image_id + r"[^0-9].*", filename)
FallbackMatch(filename, image_id) ==
    \E q \in 1..Len(filename) :
        /\ q + Len(image_id) <= Len(filename)
        /\ PatternMatchAt(filename, q, image_id)
        /\ filename[q + Len(image_id)] \notin Digits

\* get_image_path returns None
NotFound == <<>>

\* The first entry of the listing that matches the primary pattern
FirstPrimary(listing, image_id) ==
    IF \E k \in 1..Len(listing) : PrimaryMatch(listing[k], image_id)
    THEN listing[CHOOSE k \in 1..Len(listing) :
                    /\ PrimaryMatch(listing[k], image_id)
                    /\ \A j \in 1..(k - 1) : ~PrimaryMatch(listing[j], image_id)]
    ELSE NotFound

\* The first entry of the listing that matches the fallback pattern
FirstFallback(listing, image_id) ==
    IF \E k \in 1..Len(listing) : FallbackMatch(listing[k], image_id)
    THEN listing[CHOOSE k \in 1..Len(listing) :
                    /\ FallbackMatch(listing[k], image_id)
                    /\ \A j \in 1..(k - 1) : ~FallbackMatch(listing[j], image_id)]
    ELSE NotFound

\* get_image_path: listing is os.listdir(imgs_dir); the path is identified
\* with the entry's name
get_image_path(listing, image_id) ==
    LET id == Strip(image_id) IN
    IF id = <<>> THEN NotFound
    ELSE IF FirstPrimary(listing, id) # NotFound THEN FirstPrimary(listing, id)
    ELSE FirstFallback(listing, id)

LocateIdle == [pc |-> "idle", listing |-> <<>>, image_id |-> <<>>, result |-> NotFound]

(***************************************************************************)
(* DescriptionProvider: get_image_description                              *)
(***************************************************************************)
DescriptionError == Str(<<"Error: Could not generate image description">>)

\* What the vision model does with one request: the call fails, or it
\* returns content
DescCallFails == [kind |-> "fails", content |-> NoneVal]

DescContent(x) == [kind |-> "content", content |-> x]

\* encode_image: open(image_path, "rb") raises for a file that cannot be read
encode_image(image_path, imgs_dir) ==
    IF image_path \in imgs_dir.unreadable THEN Raise(<<"OSError">>)
    ELSE Return(Str(<<"data:image/png;base64,">> \o image_path))

\* Lines 93-98 and 115-128: the request to the vision model is sent unless
\* the call is in debug mode or the image could not be encoded
VisionRequestSent(image_path, debug, imgs_dir) ==
    ~debug /\ encode_image(image_path, imgs_dir).ok

\* Mutant: the image is encoded inside the try block
get_image_description_guarded(image_path, debug, imgs_dir, d) ==
    IF debug THEN Return(Str(<<"This is a debug description for image ">> \o image_path))
    ELSE IF ~encode_image(image_path, imgs_dir).ok THEN Return(DescriptionError)
    ELSE CASE d.kind = "fails" -> Return(DescriptionError)
           [] OTHER -> Return(d.content)

\* get_image_description; encode_image is called before the try block
get_image_description(image_path, debug, imgs_dir, d) ==
    IF debug THEN Return(Str(<<"This is a debug description for image ">> \o image_path))
    ELSE IF ~encode_image(image_path, imgs_dir).ok THEN encode_image(image_path, imgs_dir)
    ELSE CASE d.kind = "fails" -> Return(DescriptionError)
           [] OTHER -> Return(d.content)

(***************************************************************************)
(* RowProcessor: process_row                                               *)
(***************************************************************************)
\* row.get(h, '').strip() if row.get(h) else ''
StrippedField(row, h) == IF Truthy(row[h]) THEN Strip(row[h].v) ELSE <<>>

\* Mutant: the new description is the only entry kept
CachePutAlone(cache, image_id, description) ==
    [k \in {image_id} |-> description]

\* descriptions_cache[image_id] = description
CachePut(cache, image_id, description) ==
    [k \in DOMAIN cache \cup {image_id} |-> IF k = image_id THEN description ELSE cache[k]]

RECURSIVE MergeLocalizations(_, _, _)
\* The loop over LANGUAGE_CODES from language number n on: a language
\* present in the result overwrites the row's field; `in` and the subscript
\* raise TypeError on a value that does not support them
MergeLocalizations(row, localizations, n) ==
    IF n > Len(LANGS) THEN [ok |-> TRUE, row |-> row]
    ELSE IF ~PyIterable(localizations) THEN [ok |-> FALSE, row |-> row]
    ELSE IF ~PyIn(LANGS[n], localizations)
         THEN MergeLocalizations(row, localizations, n + 1)
    ELSE IF localizations.t # "dict" THEN [ok |-> FALSE, row |-> row]
    ELSE MergeLocalizations(
            [row EXCEPT ![LANGUAGE_CODES[LANGS[n]]] = localizations.v[LANGS[n]]],
            localizations, n + 1)

\* What process_row did: it returned (ok) or raised, the row as it is
\* afterwards, the returned description (None for a skip), the cache, and
\* whether the two providers were called
RowOutcome(ok, row, description, cache, desc_called, loc_called) ==
    [ok |-> ok, row |-> row, description |-> description, cache |-> cache,
     desc_called |-> desc_called, loc_called |-> loc_called]

\* Lines 398-407: localize with the description and merge into the row
LocalizeRow(row, english_text, description, cache, desc_called, model_id, model_name, debug, api) ==
    LET result == process_localization(description, english_text, model_id, model_name, debug, api)
        localizations == IF "localization" \in DOMAIN result.val.v
                         THEN result.val.v["localization"] ELSE Dict(<<>>)
        merged == MergeLocalizations(row, localizations, 1)
    IN  IF ~result.ok THEN RowOutcome(FALSE, row, NoneVal, cache, desc_called, TRUE)
        ELSE RowOutcome(merged.ok, merged.row, IF merged.ok THEN description ELSE NoneVal,
                        cache, desc_called, TRUE)

\* Mutant: a row with blank English text is processed like any other
process_row_no_skip(row, imgs_dir, cache, model_id, model_name, debug, d, api) ==
    LET image_id == StrippedField(row, "image_id")
        english_text == StrippedField(row, "en")
    IN  IF image_id = <<>> THEN RowOutcome(TRUE, row, NoneVal, cache, FALSE, FALSE)
        ELSE IF image_id \in DOMAIN cache
             THEN LocalizeRow(row, english_text, cache[image_id], cache, FALSE,
                              model_id, model_name, debug, api)
        ELSE LET image_path == get_image_path(imgs_dir.listing, image_id) IN
             IF image_path = NotFound
             THEN RowOutcome(TRUE, row, NoneVal, cache, FALSE, FALSE)
             ELSE LET got == get_image_description(image_path, debug, imgs_dir, d) IN
                  IF ~got.ok THEN RowOutcome(FALSE, row, NoneVal, cache, TRUE, FALSE)
                  ELSE LocalizeRow(row, english_text, got.val,
                                   CachePut(cache, image_id, got.val), TRUE,
                                   model_id, model_name, debug, api)

\* process_row; d and api are what the two providers do if they are called
process_row(row, imgs_dir, cache, model_id, model_name, debug, d, api) ==
    LET image_id == StrippedField(row, "image_id")
        english_text == StrippedField(row, "en")
    IN  IF image_id = <<>> \/ english_text = <<>>
        THEN RowOutcome(TRUE, row, NoneVal, cache, FALSE, FALSE)
        ELSE IF image_id \in DOMAIN cache
             THEN LocalizeRow(row, english_text, cache[image_id], cache, FALSE,
                              model_id, model_name, debug, api)
        ELSE LET image_path == get_image_path(imgs_dir.listing, image_id) IN
             IF image_path = NotFound
             THEN RowOutcome(TRUE, row, NoneVal, cache, FALSE, FALSE)
             ELSE LET got == get_image_description(image_path, debug, imgs_dir, d) IN
                  IF ~got.ok THEN RowOutcome(FALSE, row, NoneVal, cache, TRUE, FALSE)
                  ELSE LocalizeRow(row, english_text, got.val,
                                   CachePut(cache, image_id, got.val), TRUE,
                                   model_id, model_name, debug, api)

(***************************************************************************)
(* BatchRunner: process_csv_file                                           *)
(***************************************************************************)
\* The configured models, in declaration order: <<model_id, model_name>>
MODELS ==
    << <<<<"1", "-", "gemini", " ", "flash", " ", "1", ".", "5", " ", "8B">>,
         "google/gemini-flash-1.5-8b">>,
       <<<<"2", "-", "gemini", " ", "flash", " ", "2", ".", "0">>,
         "google/gemini-2.0-flash-001">>,
       <<<<"3", "-", "GPT", " ", "4", "-", "o", " ", "mini">>, "openai/gpt-4o-mini">>,
       <<<<"4", "-", "GPT", " ", "4", ".", "1">>, "openai/gpt-4.1-mini">>,
       <<<<"5", "-", "Claude", " ", "3", ".", "7", " ", "Sonnet">>,
         "anthropic/claude-3-7-sonnet">>,
       <<<<"6", "-", "Grok", " ", "3">>, "x-ai/grok-3-beta">> >>

\* model_id.replace('/', '_').replace(' ', '_').replace('-', '_').replace('.', '_')
ModelNameSafe(model_id) ==
    [k \in 1..Len(model_id) |->
        IF model_id[k] \in {"/", " ", "-", "."} THEN "_" ELSE model_id[k]]

OutputCsvName(model_id) == <<"output_">> \o ModelNameSafe(model_id) \o <<".csv">>

OutputJsonName(model_id) == <<"output_">> \o ModelNameSafe(model_id) \o <<".json">>

NoLast == [row |-> 0, outcome |-> "none", description |-> NoneVal,
           desc_called |-> FALSE, loc_called |-> FALSE, requests |-> 0, slept |-> FALSE]

NoArgs == [data_file |-> <<>>, imgs_dir |-> [listing |-> <<>>, unreadable |-> {}],
           debug |-> FALSE, limit |-> NoneVal]

\* No run of process_csv_file
RunIdle ==
    /\ pc = "idle"
    /\ args = NoArgs
    /\ rows = <<>>
    /\ descriptions_cache = <<>>
    /\ model_idx = 0
    /\ row_idx = 0
    /\ model_rows = <<>>
    /\ complete_data = <<>>
    /\ record_index = <<>>
    /\ written = <<>>
    /\ csv_out = <<>>
    /\ json_out = <<>>
    /\ desc_calls = <<>>
    /\ last = NoLast

\* Mutant: the rows are cut whenever a limit is given, also 0 or less
ApplyLimitAlways(rs, limit) ==
    IF limit.t # "int" THEN rs
    ELSE IF limit.v >= 0
         THEN SubSeq(rs, 1, IF limit.v < Len(rs) THEN limit.v ELSE Len(rs))
    ELSE SubSeq(rs, 1, IF Len(rs) + limit.v > 0 THEN Len(rs) + limit.v ELSE 0)

\* Lines 477-478: rows[:limit] if limit is given and positive
ApplyLimit(rs, limit) ==
    IF Truthy(limit) /\ limit.v > 0
    THEN SubSeq(rs, 1, IF limit.v < Len(rs) THEN limit.v ELSE Len(rs))
    ELSE rs

\* Line 486: [row.copy() for row in rows]
ForkRows(rs) == rs

\* Mutant: the model works on the loaded rows themselves, not on copies
BaseRowsShared(base, forked) == forked

\* Line 486: the model's rows are copies, so a write to one of them leaves
\* the loaded rows as they are
BaseRows(base, forked) == base

\* Lines 503-517: the structured record of a processed row
JsonRecord(row, updated_row, description) ==
    [KEY |-> updated_row["KEY"], LEVEL_ID |-> updated_row["LEVEL_ID"],
     image_id |-> Str(FieldText(row["image_id"])), en |-> updated_row["en"],
     description |-> description,
     localization |-> [tr |-> updated_row["tr"], fr |-> updated_row["fr"],
                       de |-> updated_row["de"]]]

\* Mutant: a record is made for every row that process_row returns
RecordWantedAlways(updated_row, description) == DOMAIN updated_row # {}

\* Line 496: if updated_row and description
RecordWanted(updated_row, description) == DOMAIN updated_row # {} /\ Truthy(description)

\* Mutant: no handler around the row, an exception ends the run
AfterRowAbort(ok) == IF ok THEN "rows" ELSE "aborted"

\* Lines 493-526: where the run is after one row; the handler of the row
\* loop prints the exception and the loop goes on
AfterRow(ok) == "rows"

\* Line 521: time.sleep(1) is the last statement of the try block
SleptAfterRow(ok) == ok

\* Mutant: the record file is left out when there are no records
OutputNamesIfData(model_id, data) ==
    IF data = <<>> THEN <<OutputCsvName(model_id)>>
    ELSE <<OutputCsvName(model_id), OutputJsonName(model_id)>>

\* Lines 534-540: the two files written for a model
OutputNames(model_id, data) == <<OutputCsvName(model_id), OutputJsonName(model_id)>>

\* Lines 451-479: the table is read and cut to the limit
Load ==
    /\ pc = "start"
    /\ rows' = ApplyLimit(read_semicolon_csv(args.data_file), args.limit)
    /\ descriptions_cache' = <<>>
    /\ model_idx' = 1
    /\ pc' = "model"
    /\ UNCHANGED <<args, row_idx, model_rows, complete_data, record_index, written,
                   csv_out, json_out, desc_calls, last>>
    /\ UNCHANGED <<loc_vars, codec, locate>>

\* Mutant: a table that cannot be read is taken to be empty
LoadFailsGoesOn ==
    /\ pc = "start"
    /\ rows' = <<>>
    /\ descriptions_cache' = <<>>
    /\ model_idx' = 1
    /\ pc' = "model"
    /\ last' = [NoLast EXCEPT !.outcome = "load failed"]
    /\ UNCHANGED <<args, row_idx, model_rows, complete_data, record_index, written,
                   csv_out, json_out, desc_calls>>
    /\ UNCHANGED <<loc_vars, codec, locate>>

\* Lines 463-465: reading the table raises; the error is printed and the
\* function returns
LoadFails ==
    /\ pc = "start"
    /\ pc' = "aborted"
    /\ last' = [NoLast EXCEPT !.outcome = "load failed"]
    /\ UNCHANGED <<args, rows, descriptions_cache, model_idx, row_idx, model_rows,
                   complete_data, record_index, written, csv_out, json_out, desc_calls>>
    /\ UNCHANGED <<loc_vars, codec, locate>>

\* Lines 482-489: the next model starts on its own copy of the rows
StartModel ==
    /\ pc = "model"
    /\ model_idx <= Len(MODELS)
    /\ model_rows' = ForkRows(rows)
    /\ complete_data' = <<>>
    /\ record_index' = <<>>
    /\ row_idx' = 1
    /\ csv_out' = <<>>
    /\ json_out' = <<>>
    /\ last' = NoLast
    /\ pc' = "rows"
    /\ UNCHANGED <<args, rows, descriptions_cache, model_idx, written, desc_calls>>
    /\ UNCHANGED <<loc_vars, codec, locate>>

\* What the vision model may do with a request: the call fails, the
\* content is a description, the content is empty
DescOutcomes == {DescCallFails, DescContent(Str(<<"A red door">>)), DescContent(Str(<<>>))}

\* What a text model may do with a request: a well-formed reply, a reply
\* without german, a failed call, a container that is a list of the three
\* names
RunApis ==
    {ApiJson(Dict([localization |-> GoodContainer])),
     ApiJson(Dict([localization |-> Dict([turkish |-> Str(<<"Merhaba">>),
                                          french |-> Str(<<"Salut">>)])])),
     ApiRaise(<<"Connection error.">>),
     ApiJson(Dict([localization |->
                List(<<Str(<<"turkish">>), Str(<<"french">>), Str(<<"german">>)>>)]))}

\* Lines 492-526: one pass of the row loop.  process_row works on the
\* model's row itself, so what it wrote stays in model_rows also when it
\* raises; the record is appended and the delay taken only if it returns.
ProcessRow ==
    /\ pc = "rows"
    /\ row_idx <= Len(model_rows)
    /\ \E d \in DescOutcomes, api \in RunApis :
        /\ \E out \in {process_row(model_rows[row_idx], args.imgs_dir, descriptions_cache,
                                    MODELS[model_idx][1], MODELS[model_idx][2],
                                    args.debug, d, api)} :
            LET image_id == StrippedField(model_rows[row_idx], "image_id")
                wanted == out.ok /\ RecordWanted(out.row, out.description)
            IN  /\ model_rows' = [model_rows EXCEPT ![row_idx] = out.row]
                /\ descriptions_cache' = out.cache
                /\ complete_data' =
                      IF wanted
                      THEN Append(complete_data,
                                  JsonRecord(model_rows[row_idx], out.row, out.description))
                      ELSE complete_data
                /\ record_index' = IF wanted THEN Append(record_index, row_idx)
                                   ELSE record_index
                /\ desc_calls' =
                      IF out.desc_called
                      THEN [k \in DOMAIN desc_calls \cup {image_id} |->
                              IF k = image_id
                              THEN (IF k \in DOMAIN desc_calls THEN desc_calls[k] ELSE 0) + 1
                              ELSE desc_calls[k]]
                      ELSE desc_calls
                /\ last' = [row |-> row_idx,
                            outcome |-> IF ~out.ok THEN "raised"
                                        ELSE IF out.loc_called THEN "processed" ELSE "skipped",
                            description |-> out.description,
                            desc_called |-> out.desc_called,
                            loc_called |-> out.loc_called,
                            requests |->
                                (IF out.desc_called
                                    /\ VisionRequestSent(
                                          get_image_path(args.imgs_dir.listing, image_id),
                                          args.debug, args.imgs_dir)
                                 THEN 1 ELSE 0)
                                + (IF out.loc_called /\ TextRequestSent(args.debug)
                                   THEN 1 ELSE 0),
                            slept |-> SleptAfterRow(out.ok)]
                /\ rows' = BaseRows(rows, [model_rows EXCEPT ![row_idx] = out.row])
                /\ pc' = AfterRow(out.ok)
    /\ row_idx' = row_idx + 1
    /\ UNCHANGED <<args, model_idx, written, csv_out, json_out>>
    /\ UNCHANGED <<loc_vars, codec, locate>>

\* Lines 528-541: the model's two files are written
WriteOutputs ==
    /\ pc = "rows"
    /\ row_idx > Len(model_rows)
    /\ csv_out' = write_semicolon_csv(model_rows, HEADERS)
    /\ json_out' = complete_data
    /\ written' = written \o OutputNames(MODELS[model_idx][1], complete_data)
    /\ model_idx' = model_idx + 1
    /\ pc' = "model"
    /\ UNCHANGED <<args, rows, descriptions_cache, row_idx, model_rows, complete_data,
                   record_index, desc_calls, last>>
    /\ UNCHANGED <<loc_vars, codec, locate>>

\* Line 543: all models are done
Finish ==
    /\ pc = "model"
    /\ model_idx > Len(MODELS)
    /\ pc' = "done"
    /\ UNCHANGED <<args, rows, descriptions_cache, model_idx, row_idx, model_rows,
                   complete_data, record_index, written, csv_out, json_out, desc_calls, last>>
    /\ UNCHANGED <<loc_vars, codec, locate>>

(***************************************************************************)
(* Specification SpecLocalize: process_localization applied to one request *)
(***************************************************************************)
NoResult == NoneVal

\* The containers restricted to a subset of the language keys
PartialContainers ==
    {Dict([l \in ks |-> GoodContainer.v[l]]) : ks \in SUBSET LangSet}

\* Containers that are mappings: every subset of the keys, an extra key,
\* a null value and an empty value
DictContainers ==
    PartialContainers \cup
    {DictSet(GoodContainer, "english", Str(<<"Hi">>)),
     DictSet(GoodContainer, "german", NoneVal),
     DictSet(GoodContainer, "french", Str(<<>>)),
     DictSet(GoodContainer, "turkish", Num(<<"7">>))}

\* Containers that are not mappings
OtherContainers ==
    {List(<<Str(<<"turkish">>), Str(<<"french">>), Str(<<"german">>)>>),
     List(<<Str(<<"turkish">>), Str(<<"french">>)>>),
     Str(<<"turkish", ", ", "french", ", ", "german">>),
     Str(<<"Merhaba">>),
     NoneVal,
     Num(<<"7">>)}

\* Parsed replies without the container
NoContainerDocs ==
    {Dict(<<>>), Dict([translations |-> GoodContainer]), Dict([turkish |-> Str(<<"Merhaba">>)])}

\* Parsed replies that are not a JSON object
NonObjectDocs ==
    {List(<<>>), List(<<Str(<<"localization">>)>>), Str(<<"abc">>), Str(<<"localization">>),
     NoneVal, Num(<<"7">>)}

LocDocs ==
    {Dict([localization |-> c]) : c \in DictContainers \cup OtherContainers}
    \cup NoContainerDocs \cup NonObjectDocs

LocApis ==
    {ApiRaise(<<"Connection error.">>), ApiRaise(<<"Request timed out.">>), ApiNoContent, ApiBadJson}
    \cup {ApiJson(d) : d \in LocDocs}

\* Source texts: one word; several words with a blank
EnglishTexts == {<<"Hi">>, <<"Tap", " ", "it">>}

Descriptions == {Str(<<"A red door">>), Str(<<"Error: Could not generate image description">>)}

LocInit ==
    /\ loc_args \in [description : Descriptions, english_text : EnglishTexts,
                     debug : BOOLEAN, api : LocApis]
    /\ loc_result = NoResult
    /\ codec = CodecIdle
    /\ locate = LocateIdle
    /\ RunIdle

\* One call of process_localization
Localize ==
    /\ loc_result = NoResult
    /\ loc_result' = process_localization(loc_args.description, loc_args.english_text,
                        "1-gemini flash 1.5 8B", "google/gemini-flash-1.5-8b",
                        loc_args.debug, loc_args.api)
    /\ UNCHANGED <<loc_args, codec, locate>>
    /\ UNCHANGED run_vars

SpecLocalize == LocInit /\ [][Localize]_vars

(***************************************************************************)
(* Claims about process_localization (SpecLocalize)                        *)
(***************************************************************************)
\* The returned value is a mapping whose localization entry is a mapping
\* with all three language keys
HasAllLanguageKeys(res) ==
    /\ res.ok
    /\ res.val.t = "dict"
    /\ "localization" \in DOMAIN res.val.v
    /\ res.val.v["localization"].t = "dict"
    /\ LangSet \subseteq DOMAIN res.val.v["localization"].v

\* x is the text '[ERROR: <reason>] ' followed by text, for some reason
IsErrorPlaceholder(x, text) ==
    /\ x.t = "str"
    /\ Len(x.v) >= Len(text) + 2
    /\ x.v[1] = "[ERROR: "
    /\ SubSeq(x.v, Len(x.v) - Len(text), Len(x.v)) = <<"] ">> \o text

\* The parsed reply has a localization container
HasContainer(doc) == doc.t = "dict" /\ "localization" \in DOMAIN doc.v

\* (a) well-formed, (b) a mapping container lacking language keys
ReplyWithMappingContainer(api) ==
    /\ api.kind = "json"
    /\ HasContainer(api.doc)
    /\ api.doc.v["localization"].t = "dict"

\* (c) parseable without the container
ReplyWithoutContainer(api) == api.kind = "json" /\ ~HasContainer(api.doc)

\* (d) the call raises, or the reply is not parseable
CallFailedOrUnparseable(api) == api.kind \in {"raise", "none", "badjson"}

\* C1: in normal mode, for a well-formed reply, a reply whose container lacks
\* language keys, a reply without the container, a call that raises and an
\* unparseable reply, the result's localization mapping has all three
\* language keys; in the last three cases every value is
\* '[ERROR: <reason>] ' followed by the source text.
C1_AllKeysInEveryOutcome ==
    (loc_result # NoResult /\ ~loc_args.debug) =>
        /\ (\/ ReplyWithMappingContainer(loc_args.api)
            \/ ReplyWithoutContainer(loc_args.api)
            \/ CallFailedOrUnparseable(loc_args.api))
           => HasAllLanguageKeys(loc_result)
        /\ (\/ ReplyWithoutContainer(loc_args.api)
            \/ CallFailedOrUnparseable(loc_args.api))
           => \A l \in LangSet :
                IsErrorPlaceholder(loc_result.val.v["localization"].v[l],
                                   loc_args.english_text)

\* C1 witness: a reply whose container lacks german was completed with a
\* placeholder for german, the two delivered values kept
C1_Witness ==
    /\ loc_result # NoResult
    /\ ~loc_args.debug
    /\ ReplyWithMappingContainer(loc_args.api)
    /\ DOMAIN loc_args.api.doc.v["localization"].v = {"turkish", "french"}
    /\ HasAllLanguageKeys(loc_result)
    /\ loc_result.val.v["localization"].v["turkish"] = Str(<<"Merhaba">>)
    /\ IsErrorPlaceholder(loc_result.val.v["localization"].v["german"], loc_args.english_text)

(***************************************************************************)
(* Specification SpecCodec: the codec applied to row sets and to files     *)
(***************************************************************************)
\* The most rows of a row set, and the most data lines of a file
MaxCodecRows == 2

MaxCodecLines == 2

LocIdle == [description |-> NoneVal, english_text |-> <<>>, debug |-> TRUE, api |-> ApiNoContent]

BaseRow == [KEY |-> Str(<<"k">>), LEVEL_ID |-> Str(<<"3">>), Text_ID |-> Str(<<"t">>),
            image_id |-> Str(<<"1">>), en |-> Str(<<"Hi">>),
            tr |-> Str(<<"T">>), de |-> Str(<<"D">>), fr |-> Str(<<"F">>)]

\* Field values: empty, blank, padded, None, a number, and values holding
\* the delimiter, a line feed, a carriage return, a byte-order mark
CodecValues ==
    {Str(<<>>), Str(<<" ">>), Str(<<" ", "x", " ">>), NoneVal, Num(<<"7">>),
     Str(<<"a", SEMI, "b">>), Str(<<"a", LF, "b">>), Str(<<"a", CR>>), Str(<<BOM, "a">>)}

\* Rows: the base row, the base row with its first, a middle or its last
\* field replaced, and the rows that are empty or None throughout
CodecRows ==
    {BaseRow, [h \in HeaderSet |-> Str(<<>>)], [h \in HeaderSet |-> NoneVal]}
    \cup {[BaseRow EXCEPT ![h] = x] : h \in {"KEY", "en", "fr"}, x \in CodecValues}

CodecRowSets == UNION {[1..n -> CodecRows] : n \in 0..MaxCodecRows}

\* Lines of an input file: 8 fields, 9 and 10 fields, 7, 5 and 1 field,
\* 8 empty fields, an empty line, a blank line
Line8 == <<"k", SEMI, "3", SEMI, "t", SEMI, "1", SEMI, "Hi", SEMI, "T", SEMI, "D", SEMI, "F">>

CodecLines ==
    {Line8, Line8 \o <<SEMI, "x">>, Line8 \o <<SEMI, "x", SEMI>>,
     SubSeq(Line8, 1, 13), SubSeq(Line8, 1, 9), <<"abc">>,
     <<SEMI, SEMI, SEMI, SEMI, SEMI, SEMI, SEMI>>, <<>>, <<" ">>}

CodecLineSeqs == UNION {[1..n -> CodecLines] : n \in 0..MaxCodecLines}

\* A file: an optional mark, a first line and the data lines, separated by
\* LF with or without a last LF; files whose lines end with CR and with
\* CR LF; and the empty file
CodecFiles ==
    {<<>>} \cup
    {mark \o JoinWith(<<first>> \o ls, eol) \o ending :
        mark \in {<<>>, <<BOM>>}, first \in {HeaderLine, Line8, <<>>},
        ls \in CodecLineSeqs, eol \in {LF}, ending \in {<<>>, <<LF>>}}
    \cup
    {<<BOM>> \o JoinWith(<<HeaderLine>> \o ls, CR) \o <<CR>> : ls \in CodecLineSeqs}
    \cup
    {JoinWith([i \in 1..(Len(ls) + 1) |-> (<<HeaderLine>> \o ls)[i] \o <<CR>>], LF) \o <<LF>> :
        ls \in CodecLineSeqs}

CodecInit ==
    /\ \/ \E rs \in CodecRowSets :
            codec = [pc |-> "start", src |-> "rows", rows0 |-> rs, text |-> <<>>,
                     rows |-> <<>>, text2 |-> <<>>]
       \/ \E f \in CodecFiles :
            codec = [pc |-> "encoded", src |-> "file", rows0 |-> <<>>, text |-> f,
                     rows |-> <<>>, text2 |-> <<>>]
    /\ loc_args = LocIdle
    /\ loc_result = NoResult
    /\ locate = LocateIdle
    /\ RunIdle

\* Encode a row set
CodecEncode ==
    /\ codec.pc = "start"
    /\ codec' = [codec EXCEPT !.pc = "encoded",
                              !.text = write_semicolon_csv(codec.rows0, HEADERS)]
    /\ UNCHANGED <<loc_vars, run_vars, locate>>

\* Decode a file
CodecDecode ==
    /\ codec.pc = "encoded"
    /\ codec' = [codec EXCEPT !.pc = "decoded", !.rows = read_semicolon_csv(codec.text)]
    /\ UNCHANGED <<loc_vars, run_vars, locate>>

\* Encode what was decoded
CodecReEncode ==
    /\ codec.pc = "decoded"
    /\ codec' = [codec EXCEPT !.pc = "done",
                              !.text2 = write_semicolon_csv(codec.rows, HEADERS)]
    /\ UNCHANGED <<loc_vars, run_vars, locate>>

CodecNext == CodecEncode \/ CodecDecode \/ CodecReEncode

SpecCodec == CodecInit /\ [][CodecNext]_vars

(***************************************************************************)
(* Claims about the codec (SpecCodec)                                      *)
(***************************************************************************)
\* No field of the row set holds ';' or a line break
RowsAreClean(rs) ==
    \A i \in 1..Len(rs) : \A h \in HeaderSet :
        \A k \in 1..Len(FieldText(rs[i][h])) :
            FieldText(rs[i][h])[k] \notin {SEMI, LF, CR}

\* C9: for a row set with the 8 fixed fields whose values hold neither ';'
\* nor a line break, Encode(Decode(Encode(rows))) = Encode(rows); the
\* encoded text starts with the mark and the header line, and decoding it
\* gives the written field texts, row by row and field by field.
C9_EncodeDecodeEncode ==
    (codec.pc = "done" /\ codec.src = "rows" /\ RowsAreClean(codec.rows0)) =>
        /\ codec.text2 = codec.text
        /\ SubSeq(codec.text, 1, Len(HeaderLine) + 2) = <<BOM>> \o HeaderLine \o <<LF>>
        /\ Len(codec.rows) = Len(codec.rows0)
        /\ \A i \in 1..Len(codec.rows0) : \A h \in HeaderSet :
              codec.rows[i][h] = Str(FieldText(codec.rows0[i][h]))

\* C9 witness: two clean rows, one field None and one blank, went through
\* Encode, Decode and Encode
C9_Witness ==
    /\ codec.pc = "done"
    /\ codec.src = "rows"
    /\ RowsAreClean(codec.rows0)
    /\ Len(codec.rows0) = 2
    /\ codec.rows0[1]["fr"] = NoneVal
    /\ codec.rows0[2]["KEY"] = Str(<<" ">>)
    /\ codec.rows[1]["fr"] = Str(<<>>)
    /\ codec.text2 = codec.text

\* The lines of a decoded file after the first
DataLines(file) == Tail(SplitOn(ReadContent(file), LF))

\* A line that is not blank and has at least 8 fields
IsRowLine(line) == Strip(line) # <<>> /\ Len(SplitOn(line, SEMI)) >= 8

\* C10: Decode discards the first line, skips blank lines and lines with
\* fewer than 8 fields, and gives for every other line, in the order of the
\* lines, a row with exactly the 8 header keys bound to the first 8 fields.
C10_DecodeRows ==
    (codec.pc \in {"decoded", "done"}) =>
        LET kept == SelectSeq(DataLines(codec.text), IsRowLine) IN
        /\ Len(codec.rows) = Len(kept)
        /\ \A k \in 1..Len(kept) :
              /\ DOMAIN codec.rows[k] = HeaderSet
              /\ \A j \in 1..8 :
                    codec.rows[k][HEADERS[j]] = Str(SplitOn(kept[k], SEMI)[j])

\* C10 witness: a file with a 5-field line and a 10-field line was decoded
\* to the one row of the long line
C10_Witness ==
    /\ codec.pc = "decoded"
    /\ codec.src = "file"
    /\ Len(DataLines(codec.text)) >= 2
    /\ \E i \in 1..Len(DataLines(codec.text)) :
          Len(SplitOn(DataLines(codec.text)[i], SEMI)) = 5
    /\ \E i \in 1..Len(DataLines(codec.text)) :
          Len(SplitOn(DataLines(codec.text)[i], SEMI)) = 10
    /\ codec.rows = <<BaseRow>>

(***************************************************************************)
(* Specification Spec: one run of process_csv_file                         *)
(***************************************************************************)
\* The most data lines of the input table
MaxRows == 2

\* Data lines: image 1; image 2 with identifier and text padded; a blank
\* identifier; image 2 with a blank text; an identifier without a file
RunLines ==
    {<<"ka", SEMI, "3", SEMI, "t1", SEMI, "1", SEMI, "Hi", SEMI, "T0", SEMI, "D0", SEMI, "F0">>,
     <<"kb", SEMI, "3", SEMI, "t2", SEMI, " ", "2", SEMI, " ", "Yo", " ", SEMI,
       "T0", SEMI, "D0", SEMI, "F0">>,
     <<"kc", SEMI, "4", SEMI, "t3", SEMI, SEMI, "Hi", SEMI, "T0", SEMI, "D0", SEMI, "F0">>,
     <<"kd", SEMI, "4", SEMI, "t4", SEMI, "2", SEMI, " ", SEMI, "T0", SEMI, "D0", SEMI, "F0">>,
     <<"ke", SEMI, "5", SEMI, "t5", SEMI, "9", SEMI, "Hi", SEMI, "T0", SEMI, "D0", SEMI, "F0">>}

\* The input tables of at most n data lines
FilesUpTo(n) ==
    {<<BOM>> \o JoinWith(<<HeaderLine>> \o ls, LF) \o <<LF>> :
        ls \in UNION {[1..k -> RunLines] : k \in 0..n}}

RunFiles == FilesUpTo(MaxRows)

\* The images directory, as os.listdir lists it, and the files in it that
\* cannot be opened: 01.png, 2.jpg, 15_bg.png, all readable; the same with
\* 01.png unreadable; an empty directory
ImageFiles ==
    << <<"0", "1", ".", "png">>, <<"2", ".", "jpg">>, <<"1", "5", "_", "bg", ".", "png">> >>

ImageDirs ==
    {[listing |-> ImageFiles, unreadable |-> {}],
     [listing |-> ImageFiles, unreadable |-> {<<"0", "1", ".", "png">>}],
     [listing |-> <<>>, unreadable |-> {}]}

\* --limit: absent, 0, 1, -1
Limits == {NoneVal, PyInt(0), PyInt(1), PyInt(-1)}

\* The state before process_csv_file is called on one of the tables
InitOn(files) ==
    /\ pc = "start"
    /\ args \in [data_file : files, imgs_dir : ImageDirs, debug : BOOLEAN, limit : Limits]
    /\ rows = <<>>
    /\ descriptions_cache = <<>>
    /\ model_idx = 0
    /\ row_idx = 0
    /\ model_rows = <<>>
    /\ complete_data = <<>>
    /\ record_index = <<>>
    /\ written = <<>>
    /\ csv_out = <<>>
    /\ json_out = <<>>
    /\ desc_calls = <<>>
    /\ last = NoLast
    /\ loc_args = LocIdle
    /\ loc_result = NoResult
    /\ codec = CodecIdle
    /\ locate = LocateIdle

Init == InitOn(RunFiles)

Next == Load \/ LoadFails \/ StartModel \/ ProcessRow \/ WriteOutputs \/ Finish

Spec == Init /\ [][Next]_vars

\* The run is one sequential thread: once the table is loaded, each step of
\* the two loops that can be taken is taken (the requests have timeouts and
\* the pause is one second)
MaxFairRows == 1

FairInit == InitOn(FilesUpTo(MaxFairRows))

FairSpec ==
    /\ FairInit
    /\ [][Next]_vars
    /\ WF_vars(StartModel)
    /\ WF_vars(ProcessRow)
    /\ WF_vars(WriteOutputs)
    /\ WF_vars(Finish)

(***************************************************************************)
(* Claims about process_row and process_csv_file (Spec, FairSpec)          *)
(***************************************************************************)
Range(seq) == {seq[k] : k \in 1..Len(seq)}

\* The row's image_id or en is blank after trimming
IsBlankRow(row) == StrippedField(row, "image_id") = <<>> \/ StrippedField(row, "en") = <<>>

\* Some entry of the listing matches the identifier by one of the two patterns
HasImage(listing, image_id) ==
    \E k \in 1..Len(listing) :
        PrimaryMatch(listing[k], image_id) \/ FallbackMatch(listing[k], image_id)

\* The two files of a model have been written and the next model has not begun
OutputsWritten == csv_out # <<>>

\* The names of all output files, in the order of the models
AllOutputNames ==
    <<OutputCsvName(MODELS[1][1]), OutputJsonName(MODELS[1][1]),
      OutputCsvName(MODELS[2][1]), OutputJsonName(MODELS[2][1]),
      OutputCsvName(MODELS[3][1]), OutputJsonName(MODELS[3][1]),
      OutputCsvName(MODELS[4][1]), OutputJsonName(MODELS[4][1]),
      OutputCsvName(MODELS[5][1]), OutputJsonName(MODELS[5][1]),
      OutputCsvName(MODELS[6][1]), OutputJsonName(MODELS[6][1])>>

\* C2: get_image_description is called at most once per image identifier,
\* and at the end of the run exactly once for every identifier that a row
\* with non-blank image_id and en refers to and that has a file.
C2_DescribedOncePerImage ==
    /\ \A id \in DOMAIN desc_calls : desc_calls[id] <= 1
    /\ pc = "done" =>
          \A k \in 1..Len(rows) :
              (~IsBlankRow(rows[k])
               /\ HasImage(args.imgs_dir.listing, StrippedField(rows[k], "image_id")))
              => /\ StrippedField(rows[k], "image_id") \in DOMAIN desc_calls
                 /\ desc_calls[StrippedField(rows[k], "image_id")] = 1

\* C3: a pass of the row loop over a row that is blank, or whose image is
\* neither cached nor found, leaves the model's rows, the cache, the call
\* counts and the records as they are; process_row returns None as the
\* description and calls neither provider.
C3_SkipChangesNothing ==
    [][(/\ pc = "rows"
        /\ row_idx <= Len(model_rows)
        /\ \/ IsBlankRow(model_rows[row_idx])
           \/ /\ StrippedField(model_rows[row_idx], "image_id") \notin DOMAIN descriptions_cache
              /\ ~HasImage(args.imgs_dir.listing, StrippedField(model_rows[row_idx], "image_id")))
       => /\ model_rows' = model_rows
          /\ descriptions_cache' = descriptions_cache
          /\ desc_calls' = desc_calls
          /\ complete_data' = complete_data
          /\ last'.row = row_idx
          /\ last'.outcome = "skipped"
          /\ last'.description = NoneVal
          /\ ~last'.desc_called
          /\ ~last'.loc_called]_vars

\* C3 witness: with a description already cached, a row whose image has no
\* file was skipped and is as it was loaded
C3_Witness ==
    /\ last.outcome = "skipped"
    /\ ~IsBlankRow(rows[last.row])
    /\ ~HasImage(args.imgs_dir.listing, StrippedField(rows[last.row], "image_id"))
    /\ model_rows[last.row] = rows[last.row]
    /\ DOMAIN descriptions_cache # {}
    /\ last.description = NoneVal

\* C4: the row just handled has a record if and only if process_row
\* processed it (it reached the localization stage and returned); each row
\* has at most one record and the records are in row order.
C4_RecordIffProcessed ==
    /\ (pc = "rows" /\ last.row >= 1) =>
          (last.row \in Range(record_index) <=> last.outcome = "processed")
    /\ \A a, b \in 1..Len(record_index) : a < b => record_index[a] < record_index[b]

\* C5: the table written for a model has one row per loaded row, in the
\* loaded order; a row with blank image_id or blank en is there with its 8
\* loaded values and has no record in the model's record file.
C5_BlankRowsPassThrough ==
    OutputsWritten =>
        LET table == read_semicolon_csv(csv_out) IN
        /\ Len(table) = Len(rows)
        /\ \A k \in 1..Len(rows) :
              /\ \A h \in {"KEY", "LEVEL_ID", "Text_ID", "image_id", "en"} :
                    table[k][h] = rows[k][h]
              /\ IsBlankRow(rows[k]) =>
                    /\ table[k] = rows[k]
                    /\ k \notin Range(record_index)
                    /\ \A r \in 1..Len(json_out) : json_out[r].KEY # rows[k]["KEY"]

\* C5 witness: a table with a blank row and a processed row was written
C5_Witness ==
    /\ OutputsWritten
    /\ Len(rows) = 2
    /\ IsBlankRow(rows[1])
    /\ Len(json_out) = 1
    /\ read_semicolon_csv(csv_out)[1] = rows[1]
    /\ read_semicolon_csv(csv_out)[2] # rows[2]

\* C6: when the handling of a row raises, the row is in the model's rows as
\* it was loaded, it has no record, and the run is at the next row of the
\* same model (or, after the last row, has written the model's two files
\* and is at the next model): it has not ended and can take its next step.
C6_RowExceptionIsContained ==
    last.outcome = "raised" =>
        /\ model_rows[last.row] = rows[last.row]
        /\ last.row \notin Range(record_index)
        /\ \/ pc = "rows" /\ row_idx = last.row + 1
           \/ /\ pc \in {"model", "done"}
              /\ last.row = Len(rows)
              /\ OutputsWritten
              /\ Len(written) = 2 * (model_idx - 1)
              /\ written[Len(written) - 1] = OutputCsvName(MODELS[model_idx - 1][1])
              /\ written[Len(written)] = OutputJsonName(MODELS[model_idx - 1][1])
        /\ pc # "done" => ENABLED Next

\* C6 witness: the first of two rows raised, the second was processed and
\* recorded, and the model's files were written
C6_Witness ==
    /\ OutputsWritten
    /\ Len(rows) = 2
    /\ model_rows[1] = rows[1]
    /\ ~IsBlankRow(rows[1])
    /\ HasImage(args.imgs_dir.listing, StrippedField(rows[1], "image_id"))
    /\ args.imgs_dir.unreadable = {}
    /\ record_index = <<2>>
    /\ model_idx = 2

\* The rows as process_csv_file loads them from its arguments
LoadedRows == ApplyLimit(read_semicolon_csv(args.data_file), args.limit)

\* C7: the loaded rows never change during the run; in a model's pass every
\* row not yet handled is equal to the loaded row, so the pass starts from
\* the input values and not from an earlier model's output; the table and
\* the records written for a model are those of its own pass.
C7_ModelRunsAreIndependent ==
    /\ pc \notin {"start", "aborted"} => rows = LoadedRows
    /\ pc = "rows" =>
          /\ Len(model_rows) = Len(rows)
          /\ \A k \in row_idx..Len(rows) : model_rows[k] = rows[k]
    /\ OutputsWritten =>
          /\ csv_out = write_semicolon_csv(model_rows, HEADERS)
          /\ json_out = complete_data
          /\ \A r \in 1..Len(json_out) :
                /\ json_out[r].localization.tr = model_rows[record_index[r]]["tr"]
                /\ json_out[r].localization.fr = model_rows[record_index[r]]["fr"]
                /\ json_out[r].localization.de = model_rows[record_index[r]]["de"]

\* C7 witness: the second model starts its pass on the loaded rows after
\* the first model, in debug mode, described an image and rewrote its row
C7_Witness ==
    /\ pc = "rows"
    /\ model_idx = 2
    /\ row_idx = 1
    /\ Len(rows) >= 1
    /\ model_rows = rows
    /\ args.debug
    /\ DOMAIN descriptions_cache # {}
    /\ Len(written) = 2

MaxListing == 3

\* 01.png, 2.jpg, 15_bg.png, 1.png, 100.png, 21_x.jpg
LocateFiles ==
    {<<"0", "1", ".", "png">>, <<"2", ".", "jpg">>, <<"1", "5", "_", "bg", ".", "png">>,
     <<"1", ".", "png">>, <<"1", "0", "0", ".", "png">>, <<"2", "1", "_", "x", ".", "jpg">>}

\* The directory listings: os.listdir gives the entries in any order
LocateListings ==
    {l \in UNION {[1..n -> LocateFiles] : n \in 0..MaxListing} :
        \A a, b \in 1..Len(l) : a # b => l[a] # l[b]}

\* The identifiers: 1, 2, 99, 1.0, 1 with a blank before it, a blank, none
LocateIds ==
    {<<"1">>, <<"2">>, <<"9", "9">>, <<"1", ".", "0">>, <<" ", "1">>, <<" ">>, <<>>}

LocateInit ==
    /\ locate \in [pc : {"call"}, listing : LocateListings, image_id : LocateIds,
                   result : {NotFound}]
    /\ loc_args = LocIdle
    /\ loc_result = NoResult
    /\ codec = CodecIdle
    /\ RunIdle

\* One call of get_image_path
Locate ==
    /\ locate.pc = "call"
    /\ locate' = [locate EXCEPT !.pc = "returned",
                                !.result = get_image_path(locate.listing, locate.image_id)]
    /\ UNCHANGED <<loc_vars, codec, run_vars>>

SpecLocate == LocateInit /\ [][Locate]_vars

\* The filename is the identifier itself, after any number of zeros and
\* before '.' and an extension
IsIdWithExtension(filename, image_id) ==
    \E z \in 0..Len(filename) :
        /\ \A k \in 1..z : filename[k] = "0"
        /\ Len(filename) >= z + Len(image_id) + 2
        /\ SubSeq(filename, z + 1, z + Len(image_id)) = image_id
        /\ filename[z + Len(image_id) + 1] = "."
        /\ \A k \in (z + Len(image_id) + 2)..Len(filename) : filename[k] \in WordTokens

\* The filename contains the identifier itself with a non-digit after it
ContainsIdThenNonDigit(filename, image_id) ==
    \E q \in 1..Len(filename) :
        /\ q + Len(image_id) <= Len(filename)
        /\ SubSeq(filename, q, q + Len(image_id) - 1) = image_id
        /\ filename[q + Len(image_id)] \notin Digits

\* C11: get_image_path gives not-found for a blank identifier; an entry that
\* is the identifier with leading zeros, '.' and an extension if there is
\* one, in any listing order; otherwise the first entry that contains the
\* identifier followed by a non-digit; otherwise not-found.
C11_ResolveRules ==
    locate.pc = "returned" =>
        LET id == Strip(locate.image_id)
            l == locate.listing
            primary == {k \in 1..Len(l) : IsIdWithExtension(l[k], id)}
            fallback == {k \in 1..Len(l) : ContainsIdThenNonDigit(l[k], id)}
        IN  IF id = <<>> THEN locate.result = NotFound
            ELSE IF primary # {} THEN \E k \in primary : locate.result = l[k]
            ELSE IF fallback # {}
                 THEN \E k \in fallback :
                        /\ locate.result = l[k]
                        /\ \A j \in fallback : k <= j
            ELSE locate.result = NotFound

(***************************************************************************)
(* Further claims about process_csv_file (Spec)                            *)
(***************************************************************************)
\* The trimmed image identifier of the row handled last
LastImageId == StrippedField(rows[last.row], "image_id")

\* C12: in normal mode a call of get_image_description never raises into
\* process_row: the row goes on to the localization stage with the returned
\* description, which is cached, and which is the fixed error string when
\* the image file could not be read.
C12_DescribeNeverRaises ==
    (~args.debug /\ last.desc_called) =>
        /\ last.loc_called
        /\ LastImageId \in DOMAIN descriptions_cache
        /\ get_image_path(args.imgs_dir.listing, LastImageId) \in args.imgs_dir.unreadable
              => descriptions_cache[LastImageId] = DescriptionError

\* C13: when reading the table raises, the run is over: no model is
\* started, neither provider is called, no file is written, and no further
\* step is taken.
C13_LoadFailureEndsRun ==
    last.outcome = "load failed" =>
        /\ pc = "aborted"
        /\ model_idx = 0
        /\ rows = <<>> /\ model_rows = <<>>
        /\ desc_calls = <<>> /\ descriptions_cache = <<>>
        /\ complete_data = <<>>
        /\ written = <<>> /\ csv_out = <<>> /\ json_out = <<>>
        /\ ~ENABLED StartModel /\ ~ENABLED ProcessRow /\ ~ENABLED WriteOutputs
        /\ ~ENABLED Finish

\* C13 witness: the load of a table with a processable row failed in a
\* normal run
C13_Witness ==
    /\ last.outcome = "load failed"
    /\ pc = "aborted"
    /\ ~args.debug
    /\ Len(read_semicolon_csv(args.data_file)) >= 1
    /\ written = <<>>

\* The row is one that process_row takes to the localization stage when
\* every image can be described
IsWorkRow(row) ==
    ~IsBlankRow(row) /\ HasImage(args.imgs_dir.listing, StrippedField(row, "image_id"))

\* C14: in debug mode no pass of the row loop sends a request; in every
\* model's table output each row with non-blank image_id and en and with an
\* image has tr, fr, de equal to '[TR] ', '[FR] ', '[DE] ' before the
\* trimmed en, and exactly one record with these three values and the debug
\* description of the image file's name; a table of 2 such rows gives 2
\* records.
C14_DebugPlaceholders ==
    args.debug =>
        /\ last.requests = 0
        /\ OutputsWritten =>
              LET table == read_semicolon_csv(csv_out) IN
              /\ \A k \in 1..Len(rows) :
                    IsWorkRow(rows[k]) =>
                        LET en == StrippedField(rows[k], "en")
                            name == get_image_path(args.imgs_dir.listing,
                                                   StrippedField(rows[k], "image_id"))
                        IN  /\ table[k]["tr"] = Str(<<"[TR] ">> \o en)
                            /\ table[k]["fr"] = Str(<<"[FR] ">> \o en)
                            /\ table[k]["de"] = Str(<<"[DE] ">> \o en)
                            /\ Cardinality({r \in 1..Len(json_out) : record_index[r] = k}) = 1
                            /\ \A r \in 1..Len(json_out) :
                                  record_index[r] = k =>
                                      /\ json_out[r].localization.tr = Str(<<"[TR] ">> \o en)
                                      /\ json_out[r].localization.fr = Str(<<"[FR] ">> \o en)
                                      /\ json_out[r].localization.de = Str(<<"[DE] ">> \o en)
                                      /\ json_out[r].description =
                                            Str(<<"This is a debug description for image ">>
                                                \o name)
              /\ (Len(rows) = 2 /\ IsWorkRow(rows[1]) /\ IsWorkRow(rows[2]))
                    => Len(json_out) = 2

\* C14 witness: the last model of a debug run wrote a table of two rows,
\* the second with padded image_id and en, and two records
C14_Witness ==
    /\ args.debug
    /\ OutputsWritten
    /\ pc = "done"
    /\ Len(rows) = 2
    /\ IsWorkRow(rows[1])
    /\ IsWorkRow(rows[2])
    /\ rows[2]["en"] # Str(StrippedField(rows[2], "en"))
    /\ Len(json_out) = 2
    /\ last.requests = 0

(***************************************************************************)
(* Further claims about process_localization (SpecLocalize)                *)
(***************************************************************************)
\* C15: every value process_localization returns has a localization mapping
\* with the keys turkish, french, german and no other, each with a
\* non-empty text as its value, whatever the provider replied.
C15_ExactlyThreeTexts ==
    loc_result # NoResult =>
        /\ HasAllLanguageKeys(loc_result)
        /\ DOMAIN loc_result.val.v["localization"].v = LangSet
        /\ \A l \in LangSet :
              /\ loc_result.val.v["localization"].v[l].t = "str"
              /\ loc_result.val.v["localization"].v[l].v # <<>>

(***************************************************************************)
(* Further claims about read_semicolon_csv (SpecCodec)                     *)
(***************************************************************************)
\* A line that is not blank
IsFilledLine(line) == Strip(line) # <<>>

\* C16: every data line that is not blank gives a row, also a line with
\* fewer than 8 fields: the fields it has are bound to the first header
\* keys and the remaining keys are bound to the empty string.
C16_ShortLinesPadded ==
    (codec.pc \in {"decoded", "done"}) =>
        LET filled == SelectSeq(DataLines(codec.text), IsFilledLine) IN
        /\ Len(codec.rows) = Len(filled)
        /\ \A k \in 1..Len(filled) :
              LET values == SplitOn(filled[k], SEMI) IN
              /\ DOMAIN codec.rows[k] = HeaderSet
              /\ \A j \in 1..8 :
                    codec.rows[k][HEADERS[j]] =
                        IF j <= Len(values) THEN Str(values[j]) ELSE Str(<<>>)

\* A line that is not blank and has fewer than 8 fields
IsShortLine(line) == IsFilledLine(line) /\ Len(SplitOn(line, SEMI)) < 8

\* C16 (amended): a data line that is not blank and has fewer than 8 fields
\* gives no row: the rows are as many as the filled lines that are not
\* short, and no row has the fields of a short line.
C16_ShortLinesDropped ==
    (codec.pc \in {"decoded", "done"}) =>
        LET filled == SelectSeq(DataLines(codec.text), IsFilledLine)
            short == SelectSeq(DataLines(codec.text), IsShortLine)
        IN  /\ Len(codec.rows) = Len(filled) - Len(short)
            /\ \A k \in 1..Len(codec.rows) : \A i \in 1..Len(short) :
                  codec.rows[k]["KEY"] # Str(SplitOn(short[i], SEMI)[1])
                  \/ \E j \in 1..Len(filled) :
                        /\ ~IsShortLine(filled[j])
                        /\ codec.rows[k]["KEY"] = Str(SplitOn(filled[j], SEMI)[1])

\* C16 witness: a file whose only data line has 5 fields was decoded to no
\* row
C16_Witness ==
    /\ codec.pc = "decoded"
    /\ codec.src = "file"
    /\ Len(DataLines(codec.text)) = 1
    /\ Len(SplitOn(DataLines(codec.text)[1], SEMI)) = 5
    /\ codec.rows = <<>>

(***************************************************************************)
(* Claims about the row limit, the delay and the cache (Spec)              *)
(***************************************************************************)
\* The smaller of two numbers
Min(a, b) == IF a < b THEN a ELSE b

\* The rows read from the input file, before the limit
DecodedRows == read_semicolon_csv(args.data_file)

\* The rows of the model's table output are the rows the run works on
TableIsOf(rs) ==
    /\ pc = "rows" => Len(model_rows) = Len(rs)
    /\ OutputsWritten =>
          /\ Len(read_semicolon_csv(csv_out)) = Len(rs)
          /\ \A k \in 1..Len(rs) : read_semicolon_csv(csv_out)[k]["KEY"] = rs[k]["KEY"]

\* C17 (as claimed): with a limit N, whatever integer N is, the rows every
\* model works on and writes are the first min(N, number of loaded rows)
\* rows; without a limit they are all loaded rows.
C17_FirstMinRows ==
    pc \notin {"start", "aborted"} =>
        /\ rows = IF args.limit = NoneVal THEN DecodedRows
                  ELSE SubSeq(DecodedRows, 1, Min(args.limit.v, Len(DecodedRows)))
        /\ TableIsOf(rows)

\* C17 (amended): with a limit N of 1 or more, the rows every model works on
\* and writes are the first min(N, number of loaded rows) rows; without a
\* limit, and with a limit of 0 or less, they are all loaded rows.
C17_LimitOfOneOrMore ==
    pc \notin {"start", "aborted"} =>
        /\ rows = IF args.limit = NoneVal \/ args.limit.v <= 0 THEN DecodedRows
                  ELSE SubSeq(DecodedRows, 1, Min(args.limit.v, Len(DecodedRows)))
        /\ TableIsOf(rows)

\* C17 witness: a run with limit 0 on a table of two rows wrote both rows
\* for the last model
C17_Witness ==
    /\ pc = "done"
    /\ args.limit = PyInt(0)
    /\ Len(DecodedRows) = 2
    /\ Len(rows) = 2
    /\ Len(read_semicolon_csv(csv_out)) = 2

\* C18: after every pass of the row loop, whatever the row's outcome, the
\* delay has been taken before the next row is handled.
C18_DelayAfterEveryRow ==
    last.row >= 1 => last.slept

\* C19: an entry of the description cache is never changed or removed, also
\* when it is the fixed error string; a new entry is only made for an
\* identifier that get_image_path resolves; a row whose identifier has an
\* entry is localized with the cached value and get_image_description is
\* not called for it.
C19_CacheOnlyGrows ==
    [][/\ \A id \in DOMAIN descriptions_cache :
            /\ id \in DOMAIN descriptions_cache'
            /\ descriptions_cache'[id] = descriptions_cache[id]
       /\ \A id \in DOMAIN descriptions_cache' \ DOMAIN descriptions_cache :
            get_image_path(args.imgs_dir.listing, id) # NotFound
       /\ (/\ pc = "rows"
           /\ row_idx <= Len(model_rows)
           /\ ~IsBlankRow(model_rows[row_idx])
           /\ StrippedField(model_rows[row_idx], "image_id") \in DOMAIN descriptions_cache)
          => /\ ~last'.desc_called
             /\ desc_calls' = desc_calls
             /\ last'.loc_called
             /\ last'.outcome = "processed" =>
                  last'.description =
                      descriptions_cache[StrippedField(model_rows[row_idx], "image_id")]]_vars

\* C19 witness: in a later model a row was localized with the cached error
\* string, without a new call, while another image has its own entry
C19_Witness ==
    /\ model_idx >= 2
    /\ pc = "rows"
    /\ last.outcome = "processed"
    /\ ~last.desc_called
    /\ last.description = DescriptionError
    /\ descriptions_cache[LastImageId] = DescriptionError
    /\ desc_calls[LastImageId] = 1
    /\ Cardinality(DOMAIN descriptions_cache) = 2

====
